---- MODULE Spec2Model ----
(***************************************************************************)
(* Model of SpotifyDJAPI (src/spotify_api.py): the catalog built by        *)
(* load_data/_clean_data and the query find_compatible_songs with its      *)
(* helpers _filter_by_bpm, _filter_by_key and _calculate_similarity; and of *)
(* the preview player of the dashboard (src/apiexplorer.py): its globals,  *)
(* its widgets and the handlers of the buttons and of a widget change.     *)
(*                                                                         *)
(* Numbers.  Tempos and years are integers.  An audio feature v stands for *)
(* the real v / FeatScale.  A distance is kept exactly as the fraction     *)
(* under its square root, [num, den] standing for sqrt(num / den), and a   *)
(* similarity as [d2, max2] standing for 1 - sqrt(d2 / max2); comparisons  *)
(* are done on these fractions by cross multiplication.                    *)
(* A missing cell of a numeric column (pandas NaN) is the value NaN, and   *)
(* every comparison with it is false, as in pandas.                        *)
(***************************************************************************)
EXTENDS Integers, Sequences, FiniteSets, TLC

VARIABLES
    file,     \* the rows of the csv file that load_data reads
    df,       \* self.df: None before load_data, then the catalog rows in order
    args,     \* the arguments of the last find_compatible_songs call (None before)
    result,   \* what that call returned
    ran,      \* the pipeline stages that call executed, in order
    seen,     \* the kinds of outcome the calls made so far have returned
    \* src/apiexplorer.py
    widgets,             \* the values of song_search and of the filter widgets
    current_song_index,  \* the globals of lines 13-16
    track_id,
    ref_track,           \* the global ref
    filtered_df,
    song,                \* the row update_audio_player read at line 234 in its
                         \* last run: None when it returned before, IndexError
                         \* when the read raised
    audio_player,
    current_song_text,
    prev_button,
    next_button

\* the state of the dashboard
dash ==
    <<widgets, current_song_index, track_id, ref_track, filtered_df, song,
      audio_player, current_song_text, prev_button, next_button>>

vars == <<file, df, args, result, ran, seen, dash>>

\* ------------------------------------------------------------------ bounds
\* rows of a file whose ranking or year filter is examined
MaxTracks == 3
\* rows of a file in the other specifications
MaxPair == 2
\* an audio feature v of the model is the real number v / FeatScale
FeatScale == 2

\* ------------------------------------------------------------- basic values
None == [kind |-> "None"]
NoCall == [kind |-> "NoCall"]
NaN == -1
NoGenre == "nan"

audio_features ==
    {"danceability", "energy", "valence", "acousticness",
     "instrumentalness", "speechiness", "liveness"}

KeyNames == <<"C", "C#", "D", "D#", "E", "F", "F#", "G", "G#", "A", "A#", "B">>
key_map == [k \in 0..11 |-> KeyNames[k + 1]]
mode_map == [m \in {0, 1} |-> IF m = 1 THEN "Major" ELSE "Minor"]

\* pandas comparisons: false as soon as one side is NaN
Ge(a, b) == a # NaN /\ b # NaN /\ a >= b
Le(a, b) == a # NaN /\ b # NaN /\ a <= b
Gt(a, b) == a # NaN /\ b # NaN /\ a > b
Minus(a, b) == IF a = NaN \/ b = NaN THEN NaN ELSE a - b
Plus(a, b) == IF a = NaN \/ b = NaN THEN NaN ELSE a + b

Range(s) == {s[i] : i \in 1..Len(s)}
Ids(rows) == {rows[i].track_id : i \in 1..Len(rows)}

\* ------------------------------------------------------------- _clean_data
Dropna(rows) ==
    SelectSeq(rows, LAMBDA r : r.tempo # NaN /\ r.key # NaN /\ r.playlist_genre # NoGenre)

RECURSIVE DropDuplicates(_)
DropDuplicates(rows) ==
    IF rows = <<>> THEN <<>>
    ELSE LET front == DropDuplicates(SubSeq(rows, 1, Len(rows) - 1))
             last == rows[Len(rows)]
         IN IF last.track_id \in Ids(front) THEN front ELSE Append(front, last)

Derived(r) ==
    [track_id |-> r.track_id, tempo |-> r.tempo, key |-> r.key, mode |-> r.mode,
     playlist_genre |-> r.playlist_genre, playlist_subgenre |-> r.playlist_subgenre,
     year |-> r.year, feat |-> r.feat,
     track_name |-> r.track_name, track_artist |-> r.track_artist,
     search_string |-> r.track_name \o " - " \o r.track_artist,
     mode_name |-> mode_map[r.mode],
     key_name |-> key_map[r.key],
     full_key |-> key_map[r.key] \o " " \o mode_map[r.mode]]

CleanData(raw) ==
    LET kept == DropDuplicates(Dropna(raw))
    IN [i \in 1..Len(kept) |-> Derived(kept[i])]


\* A DataFrame value: its rows in order
DataFrame(rows) == [kind |-> "DataFrame", rows |-> rows]

\* ---------------------------------------------------------- _filter_by_bpm
\* the half band computed with floor division instead of true division
filter_by_bpm_floor(rows, reference_song, bpm_tolerance, include_double_half) ==
    LET bpm_min == reference_song.tempo - bpm_tolerance
        bpm_max == reference_song.tempo + bpm_tolerance
        InBand(r) == r.tempo >= bpm_min /\ r.tempo <= bpm_max
        InDouble(r) == r.tempo >= 2 * bpm_min /\ r.tempo <= 2 * bpm_max
        InHalf(r) == r.tempo >= bpm_min \div 2 /\ r.tempo <= bpm_max \div 2
    IN IF include_double_half
       THEN SelectSeq(rows, LAMBDA r : InBand(r) \/ InDouble(r) \/ InHalf(r))
       ELSE SelectSeq(rows, LAMBDA r : InBand(r))

filter_by_bpm(rows, reference_song, bpm_tolerance, include_double_half) ==
    LET bpm_min == reference_song.tempo - bpm_tolerance
        bpm_max == reference_song.tempo + bpm_tolerance
        double_min == 2 * bpm_min
        double_max == 2 * bpm_max
        \* half_min = bpm_min / 2 and half_max = bpm_max / 2 are true divisions:
        \* tempo >= bpm_min / 2 iff 2 * tempo >= bpm_min
        InBand(r) == r.tempo >= bpm_min /\ r.tempo <= bpm_max
        InDouble(r) == r.tempo >= double_min /\ r.tempo <= double_max
        InHalf(r) == 2 * r.tempo >= bpm_min /\ 2 * r.tempo <= bpm_max
    IN IF include_double_half
       THEN SelectSeq(rows, LAMBDA r : InBand(r) \/ InDouble(r) \/ InHalf(r))
       ELSE SelectSeq(rows, LAMBDA r : InBand(r))

\* ---------------------------------------------------------- _filter_by_key
\* the relative minor taken 8 semitones up instead of 9
relative_key_off_by_one(ref_key_num, ref_mode) ==
    IF ref_mode = 1
    THEN [relative_key_num |-> (ref_key_num + 8) % 12, mode_name |-> "Minor"]
    ELSE [relative_key_num |-> (ref_key_num + 3) % 12, mode_name |-> "Major"]

\* lines 157-167: the relative key of the reference, as (pitch class, mode name)
relative_key(ref_key_num, ref_mode) ==
    IF ref_mode = 1
    THEN [relative_key_num |-> (ref_key_num + 9) % 12, mode_name |-> "Minor"]
    ELSE [relative_key_num |-> (ref_key_num + 3) % 12, mode_name |-> "Major"]

relative_key_label(ref_key_num, ref_mode) ==
    LET rel == relative_key(ref_key_num, ref_mode)
    IN key_map[rel.relative_key_num] \o " " \o rel.mode_name

\* the relative key allowed whether or not include_relative is set
allowed_keys_with_relative(reference_song, include_relative) ==
    {reference_song.full_key,
     relative_key_label(reference_song.key, reference_song.mode)}

allowed_keys(reference_song, include_relative) ==
    IF include_relative
    THEN {reference_song.full_key,
          relative_key_label(reference_song.key, reference_song.mode)}
    ELSE {reference_song.full_key}

filter_by_key(rows, reference_song, match_key, include_relative) ==
    IF ~match_key
    THEN rows
    ELSE SelectSeq(rows, LAMBDA r : r.full_key \in allowed_keys(reference_song, include_relative))

\* ---------------------------------------------------- _calculate_similarity
SetSum(f, S) ==
    LET RECURSIVE Acc(_)
        Acc(T) == IF T = {} THEN 0
                  ELSE LET x == CHOOSE y \in T : TRUE IN f[x] + Acc(T \ {x})
    IN Acc(S)

\* Series.min() / Series.max(): NaN on an empty series
SeriesMin(S) == IF S = {} THEN NaN ELSE CHOOSE m \in S : \A x \in S : m <= x
SeriesMax(S) == IF S = {} THEN NaN ELSE CHOOSE m \in S : \A x \in S : m >= x

\* the smallest distance taken for the largest
max_distance_min(nums) == SeriesMin(nums)

\* line 211: df['distance'].max(); the distances of one call share their
\* denominator, so the largest distance is the one with the largest numerator
max_distance(nums) == SeriesMax(nums)

\* The rows with their 'distance' and 'similarity' columns.
calculate_similarity(rows, reference_song) ==
    LET year_min == SeriesMin({rows[i].year : i \in 1..Len(rows)})
        year_max == SeriesMax({rows[i].year : i \in 1..Len(rows)})
        year_range == Minus(year_max, year_min)
        scaled == Gt(year_range, 0)
        \* the common denominator of every squared difference
        den == IF scaled THEN FeatScale * FeatScale * year_range * year_range
               ELSE FeatScale * FeatScale
        \* (year_normalized - ref_year_normalized), in units of 1 / year_range
        YearDiff(r) == IF scaled
                       THEN (r.year - year_min) - (reference_song.year - year_min)
                       ELSE 0 - 0
        FeatSq(r) == SetSum([f \in audio_features |->
                                (r.feat[f] - reference_song.feat[f]) *
                                (r.feat[f] - reference_song.feat[f])], audio_features)
        sum_squared_diffs(r) ==
            IF scaled
            THEN year_range * year_range * FeatSq(r)
                 + FeatScale * FeatScale * YearDiff(r) * YearDiff(r)
            ELSE FeatSq(r) + YearDiff(r) * YearDiff(r)
        max_dist == max_distance({sum_squared_diffs(rows[i]) : i \in 1..Len(rows)})
        Similarity(r) == IF Gt(max_dist, 0)
                         THEN [d2 |-> sum_squared_diffs(r), max2 |-> max_dist]
                         ELSE [d2 |-> 0, max2 |-> 1]
    IN [i \in 1..Len(rows) |->
           [row |-> rows[i],
            distance |-> [num |-> sum_squared_diffs(rows[i]), den |-> den],
            similarity |-> Similarity(rows[i])]]

\* similarity values 1 - sqrt(d2 / max2), compared exactly
SimGe(a, b) == a.d2 * b.max2 <= b.d2 * a.max2
SimEq(a, b) == a.d2 * b.max2 = b.d2 * a.max2

\* ------------------------------------------------------------- sort_values
\* the sort with ascending=True
sort_values_ascending(rows) ==
    LET n == Len(rows)
    IN {[i \in 1..n |-> rows[p[i]]] : p \in
           {q \in Permutations(1..n) :
               \A i \in 1..(n - 1) : SimGe(rows[q[i + 1]].similarity, rows[q[i]].similarity)}}

\* df.sort_values('similarity', ascending=False) with the default
\* kind='quicksort', which is not a stable sort: every arrangement of the rows
\* that is descending in similarity is a possible outcome.
sort_values(rows) ==
    LET n == Len(rows)
    IN {[i \in 1..n |-> rows[p[i]]] : p \in
           {q \in Permutations(1..n) :
               \A i \in 1..(n - 1) : SimGe(rows[q[i]].similarity, rows[q[i + 1]].similarity)}}


\* --------------------------------------------------- find_compatible_songs
\* a lookup whose mask is lost: every row is taken for the reference
reference_rows_unmasked(rows, reference_track_id) == rows

\* line 246: self.df[self.df['track_id'] == reference_track_id]
reference_rows(rows, reference_track_id) ==
    SelectSeq(rows, LAMBDA r : r.track_id = reference_track_id)

\* the candidates without the exclusion of the reference
except_reference_kept(rows, reference_track_id) == rows

\* line 254: self.df[self.df['track_id'] != reference_track_id].copy()
except_reference(rows, reference_track_id) ==
    SelectSeq(rows, LAMBDA r : r.track_id # reference_track_id)

\* a genre filter that ignores its flag
filter_by_genre_always(rows, reference_song, match_genre) ==
    SelectSeq(rows, LAMBDA r : r.playlist_genre = reference_song.playlist_genre)

\* lines 261-262
filter_by_genre(rows, reference_song, match_genre) ==
    IF match_genre
    THEN SelectSeq(rows, LAMBDA r : r.playlist_genre = reference_song.playlist_genre)
    ELSE rows

\* lines 265-266
filter_by_subgenre(rows, reference_song, match_subgenre) ==
    IF match_subgenre
    THEN SelectSeq(rows, LAMBDA r :
             r.playlist_subgenre = reference_song.playlist_subgenre)
    ELSE rows

\* a year filter with exclusive bounds
filter_by_year_exclusive(rows, reference_song, year_tolerance) ==
    LET year_min == Minus(reference_song.year, year_tolerance)
        year_max == Plus(reference_song.year, year_tolerance)
    IN SelectSeq(rows, LAMBDA r : Gt(r.year, year_min) /\ Gt(year_max, r.year))

\* lines 269-271
filter_by_year(rows, reference_song, year_tolerance) ==
    LET year_min == Minus(reference_song.year, year_tolerance)
        year_max == Plus(reference_song.year, year_tolerance)
    IN SelectSeq(rows, LAMBDA r : Ge(r.year, year_min) /\ Le(r.year, year_max))

\* a call that leaves its working frame in self.df
self_df_rebound(rows, ret) ==
    IF ret = None THEN rows ELSE [i \in 1..Len(ret.rows) |-> ret.rows[i].row]

\* self.df after a call that returned ret.  Lines 246-279 assign self.df
\* nowhere: the working frame is a copy (line 254) that every filter replaces
\* by a new frame, and the columns 'distance' and 'similarity' (lines 208-215)
\* are set on that frame.
self_df_after(rows, ret) == rows

\* the kind of an outcome: reference not found, no candidate left, candidates
Outcome(ret) ==
    IF ret = None THEN "NotFound"
    ELSE IF Len(ret.rows) = 0 THEN "Empty" ELSE "Rows"

\* The possible outcomes of one call: the returned value and the stages run.
find_compatible_songs(d, a) ==
    LET ref == reference_rows(d.rows, a.reference_track_id)
    IN IF Len(ref) = 0
       THEN {[ret |-> None, ran |-> <<>>]}
       ELSE
         LET reference_song == ref[1]
             d0 == except_reference(d.rows, a.reference_track_id)
             d1 == filter_by_bpm(d0, reference_song, a.bpm_tolerance, a.include_double_half)
             d2 == filter_by_key(d1, reference_song, a.match_key, a.include_relative)
             d3 == filter_by_genre(d2, reference_song, a.match_genre)
             d4 == filter_by_subgenre(d3, reference_song, a.match_subgenre)
             d5 == filter_by_year(d4, reference_song, a.year_tolerance)
             d6 == calculate_similarity(d5, reference_song)
         IN {[ret |-> DataFrame(s),
              ran |-> <<"filter_by_bpm", "filter_by_key", "filter_by_genre",
                        "filter_by_subgenre", "filter_by_year",
                        "calculate_similarity", "sort_values">>] :
                s \in sort_values(d6)}

\* ------------------------------------------------------------------ inputs
\* A row of the file; its track is named after its id unless said otherwise.
Row(id, tempo, key, mode, genre, subgenre, year, feat) ==
    [track_id |-> id, tempo |-> tempo, key |-> key, mode |-> mode,
     playlist_genre |-> genre, playlist_subgenre |-> subgenre,
     year |-> year, feat |-> feat,
     track_name |-> "Song " \o id, track_artist |-> "Artist"]

BaseFeat == [f \in audio_features |-> 1]

Config(tols, dhs, mks, irs, mgs, mss, yts) ==
    [bpm_tolerance : tols, include_double_half : dhs, match_key : mks,
     include_relative : irs, match_genre : mgs, match_subgenre : mss,
     year_tolerance : yts]

WithRef(cfg, id) ==
    [reference_track_id |-> id,
     bpm_tolerance |-> cfg.bpm_tolerance,
     include_double_half |-> cfg.include_double_half,
     match_key |-> cfg.match_key, include_relative |-> cfg.include_relative,
     match_genre |-> cfg.match_genre, match_subgenre |-> cfg.match_subgenre,
     year_tolerance |-> cfg.year_tolerance]

\* a reference id that is in no catalog
AbsentId == "T0"

\* ------------------------------------------- the rest of SpotifyDJAPI
\* a str value, where None is possible too
Str(v) == [kind |-> "str", value |-> v]

\* the truth value of an optional str: None and '' are false
Truthy(x) == x # None /\ x.value # ""

\* lines 55-73
get_track_id_from_search(d, search_string) ==
    IF search_string = ""
    THEN None
    ELSE LET res == SelectSeq(d.rows, LAMBDA r : r.search_string = search_string)
         IN IF Len(res) = 0 THEN None ELSE Str(res[1].track_id)

\* lines 281-296
get_track_by_id(d, id) ==
    LET res == SelectSeq(d.rows, LAMBDA r : r.track_id = id)
    IN IF Len(res) = 0 THEN None ELSE res[1]

\* lines 298-327: the preview url Deezer answers with, or None when it has
\* none or the request fails
search_deezer_preview(track_name, artist_name) ==
    {None, Str("preview of " \o track_name \o " " \o artist_name)}

\* ------------------------------------------------------- src/apiexplorer.py
IndexError == [kind |-> "IndexError"]
Text(t) == [kind |-> "Text", text |-> t]

\* lines 19-31: the values the widgets are created with
WidgetDefaults ==
    [song_search |-> "", bpm_tolerance |-> 5, year_tolerance |-> 10,
     include_double_half |-> FALSE, include_relative |-> FALSE,
     match_key |-> FALSE, match_genre |-> FALSE, match_subgenre |-> FALSE]

\* What a handler reads and writes: the catalog and the record of the calls
\* made on it, and the globals and panes of the dashboard.
State ==
    [df |-> df, args |-> args, result |-> result, ran |-> ran, seen |-> seen,
     current_song_index |-> current_song_index, track_id |-> track_id,
     ref |-> ref_track, filtered_df |-> filtered_df, song |-> song,
     audio_player |-> audio_player, current_song_text |-> current_song_text,
     prev_button |-> prev_button, next_button |-> next_button]

\* a call of api.find_compatible_songs made by a handler
call_find_compatible_songs(s, a) ==
    {[s EXCEPT !.df = DataFrame(self_df_after(s.df.rows, out.ret)),
               !.args = a, !.result = out.ret, !.ran = out.ran,
               !.seen = @ \cup {Outcome(out.ret)}] :
        out \in find_compatible_songs(s.df, a)}

\* lines 211-220, and the same statements at lines 47-56: the track of the
\* search string and its compatible songs under the widget values w
requery(s, w) ==
    LET id == get_track_id_from_search(s.df, w.song_search)
    IN IF Truthy(id)
       THEN {[t EXCEPT !.track_id = id,
                       !.ref = get_track_by_id(s.df, id.value),
                       !.filtered_df = t.result] :
                t \in call_find_compatible_songs(s, WithRef(w, id.value))}
       ELSE {[s EXCEPT !.track_id = id, !.ref = None, !.filtered_df = None]}

\* a test that lets an empty result through
no_data_none_only(frame) == frame = None

\* line 222: filtered_df is None or len(filtered_df) == 0
no_data(frame) == frame = None \/ Len(frame.rows) = 0

\* lines 229-232
clamp(index, n) ==
    LET capped == IF index >= n THEN n - 1 ELSE index
    IN IF capped < 0 THEN 0 ELSE capped

\* DataFrame.iloc[i]: a negative position counts from the end, a position
\* outside the frame raises IndexError
iloc(rows, i) ==
    LET n == Len(rows)
    IN IF 0 <= i /\ i < n THEN rows[i + 1]
       ELSE IF -n <= i /\ i < 0 THEN rows[n + i + 1]
       ELSE IndexError

\* lines 208-245
update_audio_player(s, w) ==
    UNION {
      IF no_data(t.filtered_df)
      THEN {[t EXCEPT !.song = None,
                      !.audio_player = [object |-> None],
                      !.current_song_text = [object |-> Text("*No data available*")],
                      !.prev_button = [disabled |-> TRUE],
                      !.next_button = [disabled |-> TRUE]]}
      ELSE
        LET n == Len(t.filtered_df.rows)
            index == clamp(t.current_song_index, n)
            row == iloc(t.filtered_df.rows, index)
        IN IF row = IndexError
           THEN {[t EXCEPT !.current_song_index = index, !.song = row]}
           ELSE {[t EXCEPT !.current_song_index = index,
                           !.song = row,
                           !.audio_player = [object |-> preview_url],
                           !.current_song_text =
                               [object |->
                                  [kind |-> "NowPlaying",
                                   track_name |-> row.row.track_name,
                                   track_artist |-> row.row.track_artist,
                                   similarity |-> row.similarity,
                                   song |-> index + 1, of |-> n]],
                           !.prev_button = [disabled |-> index = 0],
                           !.next_button = [disabled |-> index >= n - 1]] :
                   preview_url \in search_deezer_preview(row.row.track_name,
                                                         row.row.track_artist)}
      : t \in requery(s, w)}

\* lines 248-252
on_prev_click(s, w) ==
    update_audio_player(
        [s EXCEPT !.current_song_index = IF @ > 0 THEN @ - 1 ELSE @], w)

\* lines 255-259
on_next_click(s, w) ==
    update_audio_player(
        [s EXCEPT !.current_song_index =
            IF s.filtered_df # None /\ @ < Len(s.filtered_df.rows) - 1
            THEN @ + 1 ELSE @], w)

\* lines 262-265
reset_index(s, w) ==
    update_audio_player([s EXCEPT !.current_song_index = 0], w)

\* lines 43-58; the figure drawn from line 60 on is returned to the pane and
\* changes no state
get_key_distribution_wheel(s, w) ==
    UNION {reset_index(t, w) : t \in requery(s, w)}

\* ----------------------------------------------------------------- actions
Init ==
    /\ file = <<>>
    /\ df = None
    /\ args = None
    /\ result = NoCall
    /\ ran = <<>>
    /\ seen = {}
    /\ widgets = WidgetDefaults
    /\ current_song_index = 0
    /\ track_id = None
    /\ ref_track = None
    /\ filtered_df = None
    /\ song = None
    /\ audio_player = [object |-> None]
    /\ current_song_text = [object |-> Text("")]
    /\ prev_button = [disabled |-> FALSE]
    /\ next_button = [disabled |-> FALSE]

\* The environment writes the csv file, one row of Rows at a time, up to n rows,
\* before the program starts.
WriteRow(Rows, n) ==
    /\ df = None
    /\ Len(file) < n
    /\ \E r \in Rows : file' = Append(file, r)
    /\ UNCHANGED <<df, args, result, ran, seen, dash>>

\* load_data(filename): pd.read_csv, then _clean_data; called once, at startup
\* (apiexplorer.py line 10)
LoadData ==
    /\ df = None
    /\ df' = DataFrame(CleanData(file))
    /\ UNCHANGED <<file, args, result, ran, seen, dash>>

\* find_compatible_songs(reference_track_id, ...): any id of the catalog or an
\* absent one, any configuration of Configs
FindCompatibleSongs(Configs) ==
    /\ df # None
    /\ \E cfg \in Configs :
       \E id \in Ids(df.rows) \cup {AbsentId} :
       \E out \in find_compatible_songs(df, WithRef(cfg, id)) :
          /\ args' = WithRef(cfg, id)
          /\ result' = out.ret
          /\ ran' = out.ran
          /\ df' = DataFrame(self_df_after(df.rows, out.ret))
          /\ seen' = seen \cup {Outcome(out.ret)}
    /\ UNCHANGED <<file, dash>>

\* the state a handler leaves
Assign(t) ==
    /\ df' = t.df
    /\ args' = t.args
    /\ result' = t.result
    /\ ran' = t.ran
    /\ seen' = t.seen
    /\ current_song_index' = t.current_song_index
    /\ track_id' = t.track_id
    /\ ref_track' = t.ref
    /\ filtered_df' = t.filtered_df
    /\ song' = t.song
    /\ audio_player' = t.audio_player
    /\ current_song_text' = t.current_song_text
    /\ prev_button' = t.prev_button
    /\ next_button' = t.next_button

\* The start of the dashboard: api.load_data (line 10), then the layout
\* (lines 313-328), whose key wheel pane evaluates get_key_distribution_wheel
\* with the values the widgets have.
Startup ==
    /\ df = None
    /\ \E t \in get_key_distribution_wheel(
                    [State EXCEPT !.df = DataFrame(CleanData(file))], widgets) :
          Assign(t)
    /\ UNCHANGED <<file, widgets>>

\* The user changes the search or a filter widget to give the values w of
\* Widgets: the key wheel pane, bound to every widget (lines 276-278),
\* evaluates get_key_distribution_wheel again.
WidgetChange(Widgets) ==
    /\ df # None
    /\ \E w \in Widgets :
          /\ w # widgets
          /\ widgets' = w
          /\ \E t \in get_key_distribution_wheel(State, w) : Assign(t)
    /\ UNCHANGED file

\* a click on Previous (line 269)
OnPrevClick ==
    /\ df # None
    /\ \E t \in on_prev_click(State, widgets) : Assign(t)
    /\ UNCHANGED <<file, widgets>>

\* a click on Next (line 270)
OnNextClick ==
    /\ df # None
    /\ \E t \in on_next_click(State, widgets) : Assign(t)
    /\ UNCHANGED <<file, widgets>>

\* ------------------------------------------------ the general specification
\* One base track and tracks that differ from it in one column each, plus a
\* row with a duplicated id and a row without tempo for _clean_data.
Pool ==
    {Row("T1", 120, 0, 1, "pop", "dance pop", 2000, BaseFeat),
     Row("T2", 126, 0, 1, "pop", "dance pop", 2000, BaseFeat),
     Row("T3", 240, 0, 1, "pop", "dance pop", 2000, BaseFeat),
     Row("T4", 120, 9, 0, "pop", "dance pop", 2000, BaseFeat),
     Row("T5", 120, 2, 1, "pop", "dance pop", 2000, BaseFeat),
     Row("T6", 120, 0, 1, "rock", "dance pop", 2000, BaseFeat),
     Row("T7", 120, 0, 1, "pop", "electropop", 2000, BaseFeat),
     Row("T8", 120, 0, 1, "pop", "dance pop", 2002, BaseFeat),
     Row("T9", 120, 0, 1, "pop", "dance pop", NaN, BaseFeat),
     Row("T1", 126, 2, 1, "rock", "electropop", 2002, BaseFeat),
     Row("T10", NaN, 0, 1, "pop", "dance pop", 2000, BaseFeat)}

Configs == Config({5}, BOOLEAN, BOOLEAN, BOOLEAN, BOOLEAN, BOOLEAN, {1})

\* The specifications of this part explore one call per loaded catalog;
\* SpecSeq below explores sequences of calls.
Write == WriteRow(Pool, MaxPair)
Query == result = NoCall /\ FindCompatibleSongs(Configs)
Next == Write \/ LoadData \/ Query
Spec == Init /\ [][Next]_vars

\* ------------------------------------------ catalogs varying a few columns
IdOf(i) == "T" \o ToString(i)

\* The rows that may come next in the file: id IdOf(i) for row i, the other
\* columns from Variants, a set of records [tempo, key, mode, genre, subgenre,
\* year, feat]
Numbered(Variants) ==
    {Row(IdOf(Len(file) + 1), v.tempo, v.key, v.mode, v.genre, v.subgenre,
         v.year, v.feat) : v \in Variants}

\* ----------------------------------------------- tempo: only tempo varies
Tempos ==
    {57, 58, 60, 62, 63, 114, 115, 120, 121, 125, 126, 160, 161, 200, 229, 230, 240,
     250, 251}

TempoVariants ==
    [tempo : Tempos, key : {0}, mode : {1}, genre : {"pop"},
                subgenre : {"dance pop"}, year : {2000}, feat : {BaseFeat}]

TempoConfigs == Config({0, 5, 40}, BOOLEAN, BOOLEAN, {FALSE}, {FALSE}, {FALSE}, {10})

WriteTempo == WriteRow(Numbered(TempoVariants), MaxPair)
QueryTempo == result = NoCall /\ FindCompatibleSongs(TempoConfigs)
NextTempo == WriteTempo \/ LoadData \/ QueryTempo
SpecTempo == Init /\ [][NextTempo]_vars

\* ------------------------------------------ key: only key and mode vary
KeyVariants ==
    [tempo : {120}, key : 0..11, mode : {0, 1}, genre : {"pop"},
                subgenre : {"dance pop"}, year : {2000}, feat : {BaseFeat}]

KeyConfigs == Config({5}, {FALSE}, BOOLEAN, BOOLEAN, BOOLEAN, {FALSE}, {10})

WriteKey == WriteRow(Numbered(KeyVariants), MaxPair)
QueryKey == result = NoCall /\ FindCompatibleSongs(KeyConfigs)
NextKey == WriteKey \/ LoadData \/ QueryKey
SpecKey == Init /\ [][NextKey]_vars

\* ---------------------------------------------------- year: only year varies
Years == {NaN, 1998, 1999, 2000, 2001}

YearVariants ==
    [tempo : {120}, key : {0}, mode : {1}, genre : {"pop"},
                subgenre : {"dance pop"}, year : Years, feat : {BaseFeat}]

YearConfigs == Config({5}, BOOLEAN, BOOLEAN, BOOLEAN, BOOLEAN, BOOLEAN, {0, 1, 2})

WriteYear == WriteRow(Numbered(YearVariants), MaxTracks)
QueryYear == result = NoCall /\ FindCompatibleSongs(YearConfigs)
NextYear == WriteYear \/ LoadData \/ QueryYear
SpecYear == Init /\ [][NextYear]_vars

\* ------------------------------- ranking: audio features and year vary
RankFeats ==
    {[f \in audio_features |->
        IF f = "danceability" THEN d ELSE IF f = "energy" THEN e ELSE 1] :
       d \in {0, 1, FeatScale}, e \in {0, FeatScale}}

RankVariants ==
    [tempo : {120}, key : {0}, mode : {1}, genre : {"pop"},
                subgenre : {"dance pop"}, year : {2000, 2002}, feat : RankFeats]

RankConfigs == Config({5}, {FALSE}, {TRUE}, {FALSE}, {FALSE}, {FALSE}, {1, 10})

WriteRank == WriteRow(Numbered(RankVariants), MaxTracks)
QueryRank == result = NoCall /\ FindCompatibleSongs(RankConfigs)
NextRank == WriteRank \/ LoadData \/ QueryRank
SpecRank == Init /\ [][NextRank]_vars

\* ------------------------- sequences of calls: tempo and genre vary
SeqVariants ==
    [tempo : {120, 126, 240}, key : {0}, mode : {1}, genre : {"pop", "rock"},
                subgenre : {"dance pop"}, year : {2000}, feat : {BaseFeat}]

SeqConfigs == Config({5}, BOOLEAN, {FALSE}, {FALSE}, BOOLEAN, {FALSE}, {10})

WriteSeq == WriteRow(Numbered(SeqVariants), MaxPair)
QuerySeq == FindCompatibleSongs(SeqConfigs)
NextSeq == WriteSeq \/ LoadData \/ QuerySeq
SpecSeq == Init /\ [][NextSeq]_vars

\* ------------------------- the dashboard: tempo and track name vary
\* Two tracks may share a name; the danceability of a row follows its place in
\* the file, so that the similarities of the candidates differ or tie.
DashVariants == [tempo : {120, 128}, track_name : {"A", "B"}]

DashRows ==
    {[Row(IdOf(Len(file) + 1), v.tempo, 0, 1, "pop", "dance pop", 2000,
          [BaseFeat EXCEPT !["danceability"] = Len(file) % (FeatScale + 1)])
         EXCEPT !.track_name = v.track_name] : v \in DashVariants}

DashWidgets ==
    [song_search : {"", "A - Artist", "B - Artist"}, bpm_tolerance : {5, 10},
     year_tolerance : {10}, include_double_half : {FALSE},
     include_relative : {FALSE}, match_key : {FALSE}, match_genre : {FALSE},
     match_subgenre : {FALSE}]

WriteDash == WriteRow(DashRows, MaxTracks)
ChangeDash == WidgetChange(DashWidgets)
NextDash == WriteDash \/ Startup \/ ChangeDash \/ OnPrevClick \/ OnNextClick
SpecDash == Init /\ [][NextDash]_vars


\* ------------------------------------------------------------ properties
\* the reference of the last call, when it is in the catalog
Found == args.reference_track_id \in Ids(df.rows)
Reference == CHOOSE r \in Range(df.rows) : r.track_id = args.reference_track_id
Candidates == {r \in Range(df.rows) : r.track_id # args.reference_track_id}
ResultTracks == {result.rows[i].row : i \in 1..Len(result.rows)}

\* The filters as the specification states them
StatedRelativeLabel(ref) ==
    IF ref.mode = 1
    THEN KeyNames[((ref.key + 9) % 12) + 1] \o " Minor"
    ELSE KeyNames[((ref.key + 3) % 12) + 1] \o " Major"

StatedTempo(r, ref, a) ==
    LET lo == ref.tempo - a.bpm_tolerance
        hi == ref.tempo + a.bpm_tolerance
    IN \/ (lo <= r.tempo /\ r.tempo <= hi)
       \/ /\ a.include_double_half
          /\ \/ (2 * lo <= r.tempo /\ r.tempo <= 2 * hi)
             \/ (lo <= 2 * r.tempo /\ 2 * r.tempo <= hi)

StatedKey(r, ref, a) ==
    \/ r.full_key = ref.full_key
    \/ a.include_relative /\ r.full_key = StatedRelativeLabel(ref)

StatedYear(r, ref, a) ==
    /\ ref.year # NaN
    /\ r.year # NaN
    /\ ref.year - a.year_tolerance <= r.year
    /\ r.year <= ref.year + a.year_tolerance

StatedPass(r, ref, a) ==
    /\ StatedTempo(r, ref, a)
    /\ StatedYear(r, ref, a)
    /\ a.match_key => StatedKey(r, ref, a)
    /\ a.match_genre => r.playlist_genre = ref.playlist_genre
    /\ a.match_subgenre => r.playlist_subgenre = ref.playlist_subgenre

\* C1: whatever the catalog and the configuration, no row of the returned
\* result has the reference's track id.
C1_ReferenceExcluded ==
    result.kind = "DataFrame" =>
        \A i \in 1..Len(result.rows) :
            result.rows[i].row.track_id # args.reference_track_id

\* a call on a catalog of several rows that returned a candidate
C1_Witness ==
    /\ result.kind = "DataFrame"
    /\ Len(df.rows) >= 2
    /\ Len(result.rows) >= 1

\* C2: the result holds exactly the non-reference catalog rows that satisfy
\* the tempo filter and the year filter and each of the key, genre and
\* subgenre filters that is enabled, each of them once.
C2_AllEnabledFilters ==
    result.kind = "DataFrame" =>
        /\ ResultTracks = {r \in Candidates : StatedPass(r, Reference, args)}
        /\ Len(result.rows) = Cardinality(ResultTracks)

\* a candidate of another genre returned while the genre filter is disabled
\* and the key and subgenre filters are enabled
C2_Witness ==
    /\ result.kind = "DataFrame"
    /\ ~args.match_genre /\ args.match_key /\ args.match_subgenre
    /\ \E r \in ResultTracks : r.playlist_genre # Reference.playlist_genre

\* C7: the call returns None exactly when the reference id is in no catalog
\* row, and then no stage has run; when the reference is found it returns a
\* DataFrame after all stages have run, the empty one when no candidate
\* passes the filters.
C7_NotFoundOrEmpty ==
    result # NoCall =>
        /\ (result = None) <=> ~Found
        /\ result = None => ran = <<>>
        /\ Found =>
             /\ result.kind = "DataFrame"
             /\ {"calculate_similarity", "sort_values"} \subseteq Range(ran)
             /\ (\A r \in Candidates : ~StatedPass(r, Reference, args))
                    => result = DataFrame(<<>>)

\* the reference is found and the filters eliminate every other row
C7_Witness ==
    /\ result = DataFrame(<<>>)
    /\ Found
    /\ Candidates # {}
    /\ ran # <<>>


\* C3 as stated: a candidate passes the tempo filter iff its tempo is in the
\* band [ref - tol, ref + tol] or, with include_double_half, in the doubled or
\* the halved band; a candidate at ref + tol passes and one at ref + tol + 1
\* does not; with reference 120, tolerance 5 and include_double_half, 240, 60
\* and 121 pass and 200 does not.
C3_TempoBandsAsStated ==
    result.kind = "DataFrame" =>
        \A r \in Candidates :
            /\ r \in ResultTracks <=> StatedTempo(r, Reference, args)
            /\ r.tempo = Reference.tempo + args.bpm_tolerance => r \in ResultTracks
            /\ r.tempo = Reference.tempo + args.bpm_tolerance + 1 => r \notin ResultTracks
            /\ (Reference.tempo = 120 /\ args.bpm_tolerance = 5 /\ args.include_double_half)
                 => /\ r.tempo \in {240, 60, 121} => r \in ResultTracks
                    /\ r.tempo = 200 => r \notin ResultTracks

\* C3 amended: as stated, except that a candidate at ref + tol + 1 is excluded
\* unless include_double_half is set and ref + tol + 1 reaches the doubled
\* band, that is 2 * (ref - tol) <= ref + tol + 1.
C3_TempoBands ==
    result.kind = "DataFrame" =>
        \A r \in Candidates :
            /\ r \in ResultTracks <=> StatedTempo(r, Reference, args)
            /\ r.tempo = Reference.tempo + args.bpm_tolerance => r \in ResultTracks
            /\ r.tempo = Reference.tempo + args.bpm_tolerance + 1 =>
                 (r \in ResultTracks <=>
                    /\ args.include_double_half
                    /\ 2 * (Reference.tempo - args.bpm_tolerance)
                          <= Reference.tempo + args.bpm_tolerance + 1)
            /\ (Reference.tempo = 120 /\ args.bpm_tolerance = 5 /\ args.include_double_half)
                 => /\ r.tempo \in {240, 60, 121} => r \in ResultTracks
                    /\ r.tempo = 200 => r \notin ResultTracks

\* double/half enabled and a tolerance so wide that the doubled band starts
\* at ref + tol + 1 or below: the candidate at ref + tol + 1 is returned
C3_Witness ==
    /\ result.kind = "DataFrame"
    /\ args.include_double_half
    /\ \E r \in ResultTracks : r.tempo = Reference.tempo + args.bpm_tolerance + 1

\* C4: with match_key disabled every candidate passes the key filter; with
\* match_key enabled a candidate passes iff its full_key label is the
\* reference's or, with include_relative, the reference's relative key label.
C4_KeyFilter ==
    result.kind = "DataFrame" =>
        \A r \in Candidates :
            r \in ResultTracks <=> (~args.match_key \/ StatedKey(r, Reference, args))

\* match_key and include_relative: a candidate in another key than the
\* reference is returned
C4_Witness ==
    /\ result.kind = "DataFrame"
    /\ args.match_key /\ args.include_relative
    /\ \E r \in ResultTracks : r.full_key # Reference.full_key

ModeOf(mode_name) == IF mode_name = "Major" THEN 1 ELSE 0

\* C5: the relative key of p major is (p + 9) mod 12 minor and of p minor is
\* (p + 3) mod 12 major; it has the opposite mode, and taking it twice gives
\* back the key: a candidate admitted as the relative key of the reference
\* has the reference as its own relative key.
C5_RelativeRoundTrip ==
    /\ \A p \in 0..11, m \in {0, 1} :
          LET once == relative_key(p, m)
              twice == relative_key(once.relative_key_num, ModeOf(once.mode_name))
          IN /\ once.mode_name # mode_map[m]
             /\ twice.relative_key_num = p
             /\ twice.mode_name = mode_map[m]
    /\ (result.kind = "DataFrame" /\ args.match_key /\ args.include_relative) =>
          \A r \in ResultTracks :
             r.full_key # Reference.full_key =>
                /\ r.mode # Reference.mode
                /\ r.key = IF Reference.mode = 1 THEN (Reference.key + 9) % 12
                           ELSE (Reference.key + 3) % 12
                /\ relative_key_label(r.key, r.mode) = Reference.full_key

\* reference in C major, its relative A minor returned
C5_Witness ==
    /\ result.kind = "DataFrame"
    /\ args.match_key /\ args.include_relative
    /\ Reference.full_key = "C Major"
    /\ \E r \in ResultTracks : r.full_key = "A Minor"

\* C6: whatever the flags, a candidate is returned only if its year is in
\* [ref_year - year_tolerance, ref_year + year_tolerance], bounds included:
\* among candidates that differ from the reference in year only, exactly
\* those in the interval are returned.
C6_YearFilter ==
    result.kind = "DataFrame" =>
        \A r \in Candidates :
            /\ r \in ResultTracks <=> StatedYear(r, Reference, args)
            /\ (Reference.year # NaN /\ r.year = Reference.year - args.year_tolerance)
                  => r \in ResultTracks
            /\ (Reference.year # NaN /\ r.year = Reference.year - args.year_tolerance - 1)
                  => r \notin ResultTracks

\* with other filters enabled, the candidate at ref_year - year_tolerance is
\* returned and the one a year older is not
C6_Witness ==
    /\ result.kind = "DataFrame"
    /\ args.year_tolerance >= 1
    /\ args.match_key /\ args.match_genre /\ args.include_double_half
    /\ \E r \in ResultTracks : r.year = Reference.year - args.year_tolerance
    /\ \E r \in Candidates \ ResultTracks :
          r.year = Reference.year - args.year_tolerance - 1

\* C8: the similarity of the returned rows never increases from one row to
\* the next.
C8_NonIncreasing ==
    result.kind = "DataFrame" =>
        \A i \in 1..(Len(result.rows) - 1) :
            SimGe(result.rows[i].similarity, result.rows[i + 1].similarity)

\* two returned rows of different similarity
C8_Witness ==
    /\ result.kind = "DataFrame"
    /\ \E i \in 1..(Len(result.rows) - 1) :
          ~SimEq(result.rows[i].similarity, result.rows[i + 1].similarity)

\* the position of a returned row in the catalog
CatalogIndex(r) == CHOOSE k \in 1..Len(df.rows) : df.rows[k].track_id = r.row.track_id

\* C9: two returned rows of equal similarity come in their catalog order.
C9_TiesInCatalogOrder ==
    result.kind = "DataFrame" =>
        \A i, j \in 1..Len(result.rows) :
            (i < j /\ SimEq(result.rows[i].similarity, result.rows[j].similarity))
                => CatalogIndex(result.rows[i]) < CatalogIndex(result.rows[j])

\* the largest distance among the returned rows (numerator; they share the
\* denominator)
LargestDistance == SeriesMax({result.rows[i].distance.num : i \in 1..Len(result.rows)})

\* C10: with max_distance the largest distance of the returned rows, each
\* similarity is 1 - distance / max_distance when max_distance > 0 and 1.0
\* when it is 0; every similarity is in [0, 1]; a sole candidate equal to the
\* reference on the 7 audio features has distance 0 and similarity 1.0,
\* whatever its year.
C10_SimilarityLaw ==
    result.kind = "DataFrame" =>
        \A i \in 1..Len(result.rows) :
            LET sim == result.rows[i].similarity
                dist == result.rows[i].distance
            IN /\ IF LargestDistance > 0
                  THEN sim.d2 * LargestDistance = dist.num * sim.max2
                  ELSE sim.d2 = 0
               /\ sim.max2 > 0 /\ 0 <= sim.d2 /\ sim.d2 <= sim.max2
               /\ (Len(result.rows) = 1 /\ result.rows[1].row.feat = Reference.feat)
                     => (dist.num = 0 /\ sim.d2 = 0)

\* a sole candidate with the reference's audio features and another year,
\* of similarity 1.0
C10_Witness ==
    /\ result.kind = "DataFrame"
    /\ Len(result.rows) = 1
    /\ result.rows[1].row.feat = Reference.feat
    /\ result.rows[1].row.year # Reference.year
    /\ result.rows[1].similarity.d2 = 0

\* C11: a query never changes the catalog: after any sequence of
\* find_compatible_songs calls, whatever they returned, self.df holds the rows
\* load_data built from the file, with the same columns and in the same order,
\* and what the last call returned is an outcome of the query on that catalog
\* with that call's arguments, whatever calls came before.
C11_CatalogNeverMutated ==
    df # None =>
        /\ df = DataFrame(CleanData(file))
        /\ result # NoCall =>
              [ret |-> result, ran |-> ran]
                  \in find_compatible_songs(DataFrame(CleanData(file)), args)

\* a call that returns candidates after calls that returned None and an empty
\* result
C11_Witness ==
    /\ seen = {"NotFound", "Empty", "Rows"}
    /\ result.kind = "DataFrame"
    /\ Len(result.rows) >= 1
    /\ Len(df.rows) >= 2

\* what holds after every run of update_audio_player
CursorAtRead ==
    /\ song # None =>
         /\ filtered_df # None
         /\ Len(filtered_df.rows) >= 1
         /\ 0 <= current_song_index
         /\ current_song_index <= Len(filtered_df.rows) - 1
         /\ song = filtered_df.rows[current_song_index + 1]
    /\ (df # None /\ (filtered_df = None \/ Len(filtered_df.rows) = 0)) =>
         /\ prev_button.disabled
         /\ next_button.disabled
         /\ song = None

\* C12: after any sequence of Previous clicks, Next clicks and search or
\* filter changes, whenever update_audio_player has read
\* filtered_df.iloc[current_song_index] the filtered result is not empty and
\* 0 <= current_song_index <= len(filtered_df) - 1; when the result is None or
\* empty both buttons are disabled and no row is read; and a search or filter
\* change leaves the cursor at 0.
C12_CursorInBounds ==
    /\ []CursorAtRead
    /\ [][widgets' # widgets => current_song_index' = 0]_vars

\* Next has moved the cursor to the last of several songs, which was read
C12_Witness ==
    /\ filtered_df # None
    /\ Len(filtered_df.rows) >= 2
    /\ current_song_index = Len(filtered_df.rows) - 1
    /\ song = filtered_df.rows[current_song_index + 1]
    /\ next_button.disabled
    /\ ~prev_button.disabled

====
